---- MODULE Spec2Model ----
(***************************************************************************)
(* Flight Registry (tasks/task1.py over sqlite3, tasks/task2.py over       *)
(* SQLAlchemy) and Worker Registry (examples/workers.py).                  *)
(*                                                                         *)
(* A table, and the list a SELECT returns, is the bag of its rows: the      *)
(* source states no ORDER BY.  A text value is a TLA+ string, except a time *)
(* string, which is the sequence of its characters so that strptime can be *)
(* modelled character by character.                                        *)
(* Each repository works on its own database file.  A run makes its calls  *)
(* on the task1 repository, on the task2 repository, on both side by side  *)
(* (the same call on each, as tests/test_task1.py and tests/test_task2.py  *)
(* make the same calls on each), or on the staff repository.               *)
(***************************************************************************)
EXTENDS Integers, Sequences, FiniteSets, Bags, TLC

VARIABLES
    repo,          \* the repositories the calls are made on ("none": display only)
    t1_airports,   \* task1: rows of table airports
    t1_flights,    \* task1: rows of table flights
    t1_open,       \* task1: connections opened by a call and never closed
    t1_locked,     \* task1: an unclosed connection holds the write lock
    t2_airports,   \* task2: rows of table airports
    t2_flights,    \* task2: rows of table flights
    t2_open,       \* task2: sessions opened by a call and never closed
    last,          \* the last call: operation, arguments, outcome per repository
    ok1,           \* history: arguments of the calls task1 completed
    ok2,           \* history: arguments of the calls task2 completed
    out,           \* the last display call: function, list, lines printed
    posts,         \* workers.py: rows of table posts
    workers,       \* workers.py: rows of table workers
    seq_posts,     \* workers.py: AUTOINCREMENT counter of posts
    seq_workers,   \* workers.py: AUTOINCREMENT counter of workers
    current_year,  \* workers.py: datetime.now().year
    wlast,         \* the last Worker Registry call and what it returned
    hired,         \* history: the arguments of the add_worker calls completed
    proc,          \* workers.py: the call each process is in, and where
    w_lock,        \* workers.py: the holder of the database's write lock
    w_open         \* workers.py: connections opened by a call and never closed

flight_vars == <<repo, t1_airports, t1_flights, t1_open, t1_locked,
                 t2_airports, t2_flights, t2_open, last, ok1, ok2, out>>
step_vars == <<proc, w_lock, w_open>>
worker_vars ==
    <<posts, workers, seq_posts, seq_workers, current_year, wlast, hired,
      step_vars>>
vars == <<flight_vars, worker_vars>>

----------------------------------------------------------------------------
(* Bounds and input sets *)

\* Cap on the connections a repository can leave unclosed.
MaxOpen == 2

\* Cap on the rows of a table (reached only if a key constraint is missing).
MaxRows == 3

\* Cap on the number of calls of a run made on both repositories side by side.
MaxCalls == 4

Codes == {"SVO", "LED"}
QueryCodes == Codes \cup {"XXX"}
Names == {<<"Sheremetyevo", "Moscow">>, <<"Other name", "Other city">>}
Numbers == {"SU100", "SU200"}

\* "2024-05-20 10:00"
TS_1000 == <<"2","0","2","4","-","0","5","-","2","0"," ","1","0",":","0","0">>
\* "2024-05-20 11:30"
TS_1130 == <<"2","0","2","4","-","0","5","-","2","0"," ","1","1",":","3","0">>
\* "2024-5-20 9:05"
TS_unpadded == <<"2","0","2","4","-","5","-","2","0"," ","9",":","0","5">>
\* "2023-02-29 10:00"
TS_feb29 == <<"2","0","2","3","-","0","2","-","2","9"," ","1","0",":","0","0">>
\* "not-a-date"
TS_bad == <<"n","o","t","-","a","-","d","a","t","e">>

\* The routes and time strings add_flight is called with.
FlightInputs ==
    { <<"SVO", "LED", TS_1000, TS_1130>>,
      <<"LED", "SVO", TS_1000, TS_1130>>,
      <<"SVO", "LED", TS_bad, TS_1130>>,
      <<"SVO", "LED", TS_1000, TS_bad>>,
      <<"SVO", "LED", TS_unpadded, TS_1130>>,
      <<"SVO", "LED", TS_1000, TS_feb29>> }

\* No datetime: strptime raised.
NoTime == <<>>

\* Cap on the rows of table workers, which has no key but its rowid.
MaxWorkers == 2

WorkerNames == {"Ivanov", "Petrov"}
Titles == {"engineer", "manager"}
Years == {2010, 2014, 2020}
Periods == {4, 10, 11}
ClockYears == {2024, 2025}

\* The processes that call the staff repository over one database file, and
\* the arguments of their calls; None is Python's None.
Procs == {"A", "B"}
None == "None"
StepNames == {"Ivanov", None}
StepYears == {2020}

\* Cap on the length of the lists passed to the display functions.
MaxLen == 2

----------------------------------------------------------------------------
(* datetime.strptime(s, "%Y-%m-%d %H:%M"), as task2.add_flight calls it *)

Digits == {"0", "1", "2", "3", "4", "5", "6", "7", "8", "9"}
Whitespace == {" ", "\t"}

DigitVal(c) ==
    CASE c = "0" -> 0 [] c = "1" -> 1 [] c = "2" -> 2 [] c = "3" -> 3
      [] c = "4" -> 4 [] c = "5" -> 5 [] c = "6" -> 6 [] c = "7" -> 7
      [] c = "8" -> 8 [] c = "9" -> 9

AllIn(s, S) == \A i \in DOMAIN s : s[i] \in S

RECURSIVE NumVal(_)
NumVal(s) == IF s = <<>> THEN 0
             ELSE 10 * NumVal(SubSeq(s, 1, Len(s) - 1)) + DigitVal(s[Len(s)])

\* %Y: \d\d\d\d
MatchY(s) == Len(s) = 4 /\ AllIn(s, Digits)
\* %m: 1[0-2]|0[1-9]|[1-9]
MatchMonth(s) ==
    \/ Len(s) = 2 /\ s[1] = "1" /\ s[2] \in {"0", "1", "2"}
    \/ Len(s) = 2 /\ s[1] = "0" /\ s[2] \in Digits \ {"0"}
    \/ Len(s) = 1 /\ s[1] \in Digits \ {"0"}
\* %d: 3[0-1]|[1-2]\d|0[1-9]|[1-9]| [1-9]
MatchDay(s) ==
    \/ Len(s) = 2 /\ s[1] = "3" /\ s[2] \in {"0", "1"}
    \/ Len(s) = 2 /\ s[1] \in {"1", "2"} /\ s[2] \in Digits
    \/ Len(s) = 2 /\ s[1] = "0" /\ s[2] \in Digits \ {"0"}
    \/ Len(s) = 1 /\ s[1] \in Digits \ {"0"}
    \/ Len(s) = 2 /\ s[1] = " " /\ s[2] \in Digits \ {"0"}
\* %H: 2[0-3]|[0-1]\d|\d
MatchHour(s) ==
    \/ Len(s) = 2 /\ s[1] = "2" /\ s[2] \in {"0", "1", "2", "3"}
    \/ Len(s) = 2 /\ s[1] \in {"0", "1"} /\ s[2] \in Digits
    \/ Len(s) = 1 /\ s[1] \in Digits
\* %M: [0-5]\d|\d
MatchMinute(s) ==
    \/ Len(s) = 2 /\ s[1] \in {"0", "1", "2", "3", "4", "5"} /\ s[2] \in Digits
    \/ Len(s) = 1 /\ s[1] \in Digits

\* The value of a day field: " 5" counts as 5.
DayVal(s) == IF s[1] = " " THEN NumVal(SubSeq(s, 2, Len(s))) ELSE NumVal(s)

\* The ways to cut s into year - month - day whitespace+ hour : minute, every
\* field matching its directive and the whole string consumed.  A cut is
\* <<a, b, c, d>>: month is s[6..a-1], s[a] = "-", day is s[a+1..b], the
\* whitespace is s[b+1..c], hour is s[c+1..d-1], s[d] = ":", minute the rest.
MonthEnds(s) ==
    { a \in 7..Len(s) : s[a] = "-" /\ MatchMonth(SubSeq(s, 6, a - 1)) }
DayEnds(s, a) ==
    { b \in (a + 1)..Len(s) : MatchDay(SubSeq(s, a + 1, b)) }
WhitespaceEnds(s, b) ==
    { c \in (b + 1)..Len(s) : AllIn(SubSeq(s, b + 1, c), Whitespace) }
Colons(s, c) ==
    { d \in (c + 2)..(Len(s) - 1) :
        /\ s[d] = ":"
        /\ MatchHour(SubSeq(s, c + 1, d - 1))
        /\ MatchMinute(SubSeq(s, d + 1, Len(s))) }

Cuts(s) ==
    IF ~(Len(s) >= 5 /\ MatchY(SubSeq(s, 1, 4)) /\ s[5] = "-") THEN {}
    ELSE UNION { UNION { UNION { { <<a, b, c, d>> : d \in Colons(s, c) }
                                 : c \in WhitespaceEnds(s, b) }
                         : b \in DayEnds(s, a) }
                 : a \in MonthEnds(s) }

IsLeap(y) == (y % 4 = 0) /\ ((y % 100 # 0) \/ (y % 400 = 0))

DaysInMonth(y, m) ==
    IF m = 2 THEN (IF IsLeap(y) THEN 29 ELSE 28)
    ELSE IF m \in {4, 6, 9, 11} THEN 30 ELSE 31

\* Mutant: the second field is read as the day and the third as the month.
FieldsOf_day_first(s, cut) ==
    [year   |-> NumVal(SubSeq(s, 1, 4)),
     month  |-> DayVal(SubSeq(s, cut[1] + 1, cut[2])),
     day    |-> NumVal(SubSeq(s, 6, cut[1] - 1)),
     hour   |-> NumVal(SubSeq(s, cut[3] + 1, cut[4] - 1)),
     minute |-> NumVal(SubSeq(s, cut[4] + 1, Len(s)))]

\* The datetime a cut of s denotes (second and microsecond are 0).
FieldsOf(s, cut) ==
    [year   |-> NumVal(SubSeq(s, 1, 4)),
     month  |-> NumVal(SubSeq(s, 6, cut[1] - 1)),
     day    |-> DayVal(SubSeq(s, cut[1] + 1, cut[2])),
     hour   |-> NumVal(SubSeq(s, cut[3] + 1, cut[4] - 1)),
     minute |-> NumVal(SubSeq(s, cut[4] + 1, Len(s)))]

\* datetime(...) raises ValueError for year 0 and for a day the month lacks.
ValidDate(dt) == dt.year >= 1 /\ dt.day <= DaysInMonth(dt.year, dt.month)

\* strptime raises ValueError iff this is FALSE.
StrptimeOk(s) == \E cut \in Cuts(s) : ValidDate(FieldsOf(s, cut))

\* The datetime strptime returns when it does not raise.
Strptime(s) == FieldsOf(s, CHOOSE cut \in Cuts(s) : TRUE)

\* strptime on the time strings the calls are made with, computed once.
InputTimes == {f[3] : f \in FlightInputs} \cup {f[4] : f \in FlightInputs}
Parsed == [s \in InputTimes |->
             IF StrptimeOk(s) THEN [ok |-> TRUE, dt |-> Strptime(s)]
             ELSE [ok |-> FALSE, dt |-> NoTime]]

----------------------------------------------------------------------------
(* Flight Registry over sqlite3: tasks/task1.py *)

Min(a, b) == IF a < b THEN a ELSE b

\* Mutant: the table is dropped and created anew.
create_table_anew(exists, rows) == EmptyBag

\* CREATE TABLE IF NOT EXISTS (and create_all, which checks first): a table
\* that exists keeps its rows, one that does not is created empty.
create_table_if_not_exists(exists, rows) == IF exists THEN rows ELSE EmptyBag

\* The given rows of a table (those a WHERE clause keeps), each as often as stored.
Where(table, rows) == [r \in rows |-> table[r]]

\* _connect opens the connection with sqlite3's defaults: no
\* PRAGMA foreign_keys = ON, so the FOREIGN KEY clauses are not enforced.
t1_foreign_keys == FALSE

\* Mutant: table airports created without its PRIMARY KEY.
t1_airport_key_taken_no_key(code) == FALSE

\* airports.code TEXT PRIMARY KEY
t1_airport_key_taken(code) ==
    \E a \in BagToSet(t1_airports) : a.code = code

\* flights.number TEXT PRIMARY KEY
t1_flight_key_taken(number) ==
    \E f \in BagToSet(t1_flights) : f.number = number

\* FOREIGN KEY(departure_airport), FOREIGN KEY(arrival_airport)
t1_dangling(departure_airport, arrival_airport) ==
    \/ ~t1_airport_key_taken(departure_airport)
    \/ ~t1_airport_key_taken(arrival_airport)

\* What cursor.execute(INSERT INTO airports ...) does: "ok", or the
\* exception it raises.  A write needs the write lock of the database file.
t1_insert_airport(code) ==
    IF t1_locked THEN "OperationalError"
    ELSE IF t1_airport_key_taken(code) THEN "IntegrityError"
    ELSE "ok"

\* What cursor.execute(INSERT INTO flights ...) does.  The time strings are
\* bound to the TEXT columns as they are.
t1_insert_flight(number, departure_airport, arrival_airport) ==
    IF t1_locked THEN "OperationalError"
    ELSE IF t1_flight_key_taken(number) THEN "IntegrityError"
    ELSE IF t1_foreign_keys /\ t1_dangling(departure_airport, arrival_airport)
         THEN "IntegrityError"
    ELSE "ok"

\* An exception leaves add_airport / add_flight before conn.close(): the
\* connection stays open until the garbage collector finalises it, and after
\* a failed INSERT it still holds the write lock of its open transaction.
t1_after_raise(r) ==
    /\ t1_open' = IF r = "ok" THEN t1_open ELSE Min(t1_open + 1, MaxOpen)
    /\ t1_locked' = (t1_locked \/ r = "IntegrityError")

t1_add_airport(code, name, city) ==
    LET r == t1_insert_airport(code) IN
    /\ t1_airports' = IF r = "ok"
                      THEN t1_airports (+)
                           SetToBag({[code |-> code, name |-> name, city |-> city]})
                      ELSE t1_airports
    /\ t1_flights' = t1_flights
    /\ t1_after_raise(r)
    /\ ok1' = IF r = "ok"
              THEN [ok1 EXCEPT !.airports = @ \cup {<<code, name, city>>}]
              ELSE ok1

t1_add_flight(number, departure_airport, arrival_airport, departure_time, arrival_time) ==
    LET r == t1_insert_flight(number, departure_airport, arrival_airport) IN
    /\ t1_flights' = IF r = "ok"
                     THEN t1_flights (+)
                          SetToBag({[number |-> number,
                                     departure_airport |-> departure_airport,
                                     arrival_airport |-> arrival_airport,
                                     departure_time |-> departure_time,
                                     arrival_time |-> arrival_time]})
                     ELSE t1_flights
    /\ t1_airports' = t1_airports
    /\ t1_after_raise(r)
    /\ ok1' = IF r = "ok"
              THEN [ok1 EXCEPT !.flights = @ \cup
                      {<<number, departure_airport, arrival_airport,
                         departure_time, arrival_time>>}]
              ELSE ok1

\* _create_tables, run by the constructor over a database file in which the
\* tables exist or not; it writes nothing where they exist, so it needs no
\* write lock, and it closes its connection.
t1_create_tables(exists) ==
    /\ t1_airports' = create_table_if_not_exists(exists, t1_airports)
    /\ t1_flights' = create_table_if_not_exists(exists, t1_flights)
    /\ UNCHANGED <<t1_open, t1_locked, ok1>>

\* SELECT ... FROM flights f, each row made a Flight
t1_get_all_flights == t1_flights

\* Mutant: the WHERE clause compares the departure airport.
t1_get_flights_by_destination_departure(airport_code) ==
    Where(t1_flights, {f \in BagToSet(t1_flights) : f.departure_airport = airport_code})

\* SELECT ... FROM flights f WHERE f.arrival_airport = ?
t1_get_flights_by_destination(airport_code) ==
    Where(t1_flights, {f \in BagToSet(t1_flights) : f.arrival_airport = airport_code})

\* SELECT code, name, city FROM airports, each row made an Airport
t1_get_all_airports == t1_airports

----------------------------------------------------------------------------
(* Flight Registry over SQLAlchemy: tasks/task2.py *)

\* create_engine("sqlite:///...") sets no PRAGMA foreign_keys = ON either.
t2_foreign_keys == FALSE

\* Mutant: Airport.code is no primary key.
t2_airport_key_taken_no_key(code) == FALSE

\* Airport.code = Column(String, primary_key=True)
t2_airport_key_taken(code) ==
    \E a \in BagToSet(t2_airports) : a.code = code

\* Flight.number = Column(String, primary_key=True)
t2_flight_key_taken(number) ==
    \E f \in BagToSet(t2_flights) : f.number = number

\* ForeignKey("airports.code") on both airport code columns
t2_dangling(departure_airport_code, arrival_airport_code) ==
    \/ ~t2_airport_key_taken(departure_airport_code)
    \/ ~t2_airport_key_taken(arrival_airport_code)

\* session.add(airport); session.commit()
t2_insert_airport(code) ==
    IF t2_airport_key_taken(code) THEN "IntegrityError" ELSE "ok"

\* Mutant: the row is inserted before the time strings are parsed.
t2_insert_flight_parse_late(number, departure_airport_code, arrival_airport_code, departure_time_str, arrival_time_str) ==
    IF t2_flight_key_taken(number) THEN "IntegrityError"
    ELSE IF ~Parsed[departure_time_str].ok THEN "ValueError"
    ELSE IF ~Parsed[arrival_time_str].ok THEN "ValueError"
    ELSE "ok"

\* The two strptime calls, then session.add(flight); session.commit()
t2_insert_flight(number, departure_airport_code, arrival_airport_code, departure_time_str, arrival_time_str) ==
    IF ~Parsed[departure_time_str].ok THEN "ValueError"
    ELSE IF ~Parsed[arrival_time_str].ok THEN "ValueError"
    ELSE IF t2_flight_key_taken(number) THEN "IntegrityError"
    ELSE IF t2_foreign_keys
            /\ t2_dangling(departure_airport_code, arrival_airport_code)
         THEN "IntegrityError"
    ELSE "ok"

\* "with self._get_session() as session" closes the session on every exit.
t2_after_with == t2_open' = t2_open

t2_add_airport(code, name, city) ==
    LET r == t2_insert_airport(code) IN
    /\ t2_airports' = IF r = "ok"
                      THEN t2_airports (+)
                           SetToBag({[code |-> code, name |-> name, city |-> city]})
                      ELSE t2_airports
    /\ t2_flights' = t2_flights
    /\ t2_after_with
    /\ ok2' = IF r = "ok"
              THEN [ok2 EXCEPT !.airports = @ \cup {<<code, name, city>>}]
              ELSE ok2

t2_add_flight(number, departure_airport_code, arrival_airport_code, departure_time_str, arrival_time_str) ==
    LET r == t2_insert_flight(number, departure_airport_code,
                              arrival_airport_code,
                              departure_time_str, arrival_time_str) IN
    /\ t2_flights' = IF r = "ok"
                     THEN t2_flights (+)
                          SetToBag({[number |-> number,
                                     departure_airport_code |-> departure_airport_code,
                                     arrival_airport_code |-> arrival_airport_code,
                                     departure_time |-> Parsed[departure_time_str].dt,
                                     arrival_time |-> Parsed[arrival_time_str].dt]})
                     ELSE t2_flights
    /\ t2_airports' = t2_airports
    /\ t2_after_with
    /\ ok2' = IF r = "ok"
              THEN [ok2 EXCEPT !.flights = @ \cup
                      {<<number, departure_airport_code, arrival_airport_code,
                         departure_time_str, arrival_time_str>>}]
              ELSE ok2

\* Base.metadata.create_all(self.engine), run by the constructor.
t2_create_all(exists) ==
    /\ t2_airports' = create_table_if_not_exists(exists, t2_airports)
    /\ t2_flights' = create_table_if_not_exists(exists, t2_flights)
    /\ UNCHANGED <<t2_open, ok2>>

\* session.query(Flight).all()
t2_get_all_flights == t2_flights

\* session.query(Flight).filter(Flight.arrival_airport_code == airport_code).all()
t2_get_flights_by_destination(airport_code) ==
    Where(t2_flights, {f \in BagToSet(t2_flights) : f.arrival_airport_code = airport_code})

\* session.query(Airport).all()
t2_get_all_airports == t2_airports

\* flight.departure_airport, flight.arrival_airport and the airports'
\* departing_flights and arriving_flights, read from a Flight that
\* session.query(Flight).all() has loaded.  The relationships are declared
\* without lazy=, so each is loaded by a SELECT of the Flight's session when
\* it is first read, and a Flight whose session is closed raises instead.
t2_relationships(flight) ==
    IF t2_open = 0
    THEN [r |-> "DetachedInstanceError", departure_airport |-> {},
          arrival_airport |-> {}, departing_flights |-> {},
          arriving_flights |-> {}]
    ELSE [r |-> "ok",
          departure_airport |->
              {a.code : a \in {b \in BagToSet(t2_airports) :
                                  b.code = flight.departure_airport_code}},
          arrival_airport |->
              {a.code : a \in {b \in BagToSet(t2_airports) :
                                  b.code = flight.arrival_airport_code}},
          departing_flights |->
              {f.number : f \in {g \in BagToSet(t2_flights) :
                  g.departure_airport_code = flight.departure_airport_code}},
          arriving_flights |->
              {f.number : f \in {g \in BagToSet(t2_flights) :
                  g.arrival_airport_code = flight.arrival_airport_code}}]

----------------------------------------------------------------------------
(* The calls made on the two flight repositories *)

\* The record of a call; tick alternates, so that a step is a call exactly
\* when it changes last.tick; n counts the calls of a side-by-side run.
Call(op, args, r1, r2) ==
    [op |-> op, args |-> args, r1 |-> r1, r2 |-> r2, tick |-> ~last.tick,
     n |-> IF repo = "both" THEN last.n + 1 ELSE 0]

t1_vars == <<t1_airports, t1_flights, t1_open, t1_locked, ok1>>
t2_vars == <<t2_airports, t2_flights, t2_open, ok2>>

On1 == repo \in {"task1", "both"}
On2 == repo \in {"task2", "both"}
OnStaff == repo = "staff"

\* A call can be made on the flight repositories.
MayCall == (On1 \/ On2) /\ last.n < MaxCalls

AddAirport ==
    \E code \in Codes, nc \in Names :
        /\ MayCall
        /\ BagCardinality(t1_airports) < MaxRows
        /\ BagCardinality(t2_airports) < MaxRows
        /\ IF On1 THEN t1_add_airport(code, nc[1], nc[2]) ELSE UNCHANGED t1_vars
        /\ IF On2 THEN t2_add_airport(code, nc[1], nc[2]) ELSE UNCHANGED t2_vars
        /\ last' = Call("add_airport", <<code, nc[1], nc[2]>>,
                        IF On1 THEN t1_insert_airport(code) ELSE "none",
                        IF On2 THEN t2_insert_airport(code) ELSE "none")
        /\ UNCHANGED <<out, repo, worker_vars>>

AddFlight ==
    \E number \in Numbers, f \in FlightInputs :
        /\ MayCall
        /\ BagCardinality(t1_flights) < MaxRows
        /\ BagCardinality(t2_flights) < MaxRows
        /\ IF On1 THEN t1_add_flight(number, f[1], f[2], f[3], f[4])
                  ELSE UNCHANGED t1_vars
        /\ IF On2 THEN t2_add_flight(number, f[1], f[2], f[3], f[4])
                  ELSE UNCHANGED t2_vars
        /\ last' = Call("add_flight", <<number, f[1], f[2], f[3], f[4]>>,
                        IF On1 THEN t1_insert_flight(number, f[1], f[2])
                               ELSE "none",
                        IF On2 THEN t2_insert_flight(number, f[1], f[2],
                                                     f[3], f[4])
                               ELSE "none")
        /\ UNCHANGED <<out, repo, worker_vars>>

\* The read operations change no table and close what they open.
Read(op, args) ==
    /\ MayCall
    /\ last' = Call(op, args, IF On1 THEN "ok" ELSE "none",
                              IF On2 THEN "ok" ELSE "none")
    /\ UNCHANGED <<out, repo, t1_vars, t2_vars, worker_vars>>

GetAllFlights == Read("get_all_flights", <<>>)

GetFlightsByDestination ==
    \E airport_code \in QueryCodes :
        Read("get_flights_by_destination", <<airport_code>>)

GetAllAirports == Read("get_all_airports", <<>>)

\* The garbage collector finalises the unclosed sqlite3 connections: each is
\* closed, its open transaction rolled back and its lock released.
CollectGarbage ==
    /\ t1_open > 0
    /\ t1_open' = 0
    /\ t1_locked' = FALSE
    /\ UNCHANGED <<out, repo, t1_airports, t1_flights, ok1, t2_vars, last>>
    /\ UNCHANGED worker_vars

\* FlightRepository(db_path) constructed again over the database file.
Construct ==
    /\ MayCall
    /\ IF On1 THEN t1_create_tables(TRUE) ELSE UNCHANGED t1_vars
    /\ IF On2 THEN t2_create_all(TRUE) ELSE UNCHANGED t2_vars
    /\ last' = Call("construct", <<>>, IF On1 THEN "ok" ELSE "none",
                                       IF On2 THEN "ok" ELSE "none")
    /\ UNCHANGED <<out, repo, worker_vars>>

\* The caller of get_all_flights reads the relationships of a Flight of the
\* list it was returned (tests/test_task2.py, test_relationships).
UseRelationships ==
    /\ MayCall /\ On2 /\ last.op = "get_all_flights"
    /\ \E flight \in BagToSet(t2_get_all_flights) :
         last' = Call("relationships", <<flight.number>>, "none",
                      t2_relationships(flight).r)
    /\ UNCHANGED <<out, repo, t1_vars, t2_vars, worker_vars>>

NoCall ==
    [op |-> "none", args |-> <<>>, r1 |-> "none", r2 |-> "none",
     tick |-> FALSE, n |-> 0]

\* No display function called yet.
NoDisplay == [fn |-> "none", list |-> <<>>, lines |-> <<>>]

\* The repositories constructed over database files that do not exist yet.
FlightStoresInit ==
    /\ t1_airports = create_table_if_not_exists(FALSE, EmptyBag)
    /\ t1_flights = create_table_if_not_exists(FALSE, EmptyBag)
    /\ t1_open = 0 /\ t1_locked = FALSE
    /\ t2_airports = create_table_if_not_exists(FALSE, EmptyBag)
    /\ t2_flights = create_table_if_not_exists(FALSE, EmptyBag)
    /\ t2_open = 0
    /\ last = NoCall
    /\ ok1 = [airports |-> {}, flights |-> {}]
    /\ ok2 = [airports |-> {}, flights |-> {}]
    /\ out = NoDisplay

----------------------------------------------------------------------------
(* Worker Registry: examples/workers.py *)

\* Mutant: the SELECT finds no row.
select_post_none(title) == [row |-> FALSE]

\* SELECT post_id FROM posts WHERE post_title = ? ; cursor.fetchone()
\* The rows come in rowid order, so fetchone gives the smallest post_id.
select_post(title) ==
    LET found == {p \in BagToSet(posts) : p.post_title = title} IN
    IF found = {} THEN [row |-> FALSE]
    ELSE [row |-> TRUE,
          post_id |-> (CHOOSE p \in found :
                         \A q \in found : p.post_id <= q.post_id).post_id]

\* The posts table and its AUTOINCREMENT counter after
\* get_or_create_post(title), and the post_id it returns.
get_or_create_post(title) ==
    LET sel == select_post(title) IN
    IF sel.row
    THEN [posts |-> posts, seq |-> seq_posts, post_id |-> sel.post_id,
          inserted |-> FALSE]
    ELSE [posts |-> posts (+) SetToBag({[post_id |-> seq_posts + 1,
                                         post_title |-> title]}),
          seq |-> seq_posts + 1, post_id |-> seq_posts + 1,
          inserted |-> TRUE]

\* Mutant: the join without its ON condition.
JoinPairs_cross(ws) == BagToSet(ws) \X BagToSet(posts)

\* workers JOIN posts ON posts.post_id = workers.post_id, each pair of rows
\* made a Worker(name, post, year); a Worker is in the list once per pair.
JoinPairs(ws) ==
    {<<w, p>> \in BagToSet(ws) \X BagToSet(posts) : p.post_id = w.post_id}

MakeWorker(pair) ==
    [name |-> pair[1].worker_name, post |-> pair[2].post_title,
     year |-> pair[1].worker_year]

JoinList(ws) ==
    LET pairs == JoinPairs(ws) IN
    [v \in {MakeWorker(pr) : pr \in pairs} |->
        Cardinality({pr \in pairs : MakeWorker(pr) = v})]

get_all_workers == JoinList(workers)

\* Mutant: the WHERE clause compares with > .
select_by_period_longer(period) ==
    JoinList(Where(workers,
                   {w \in BagToSet(workers) : (current_year - w.worker_year) > period}))

\* ... WHERE (? - workers.worker_year) >= ?, bound to (current_year, period)
select_by_period(period) ==
    JoinList(Where(workers,
                   {w \in BagToSet(workers) : (current_year - w.worker_year) >= period}))

\* The record of a call: again says that the call before it was the same
\* operation with the same arguments.
WCall(op, args, post_id, inserted) ==
    [op |-> op, args |-> args, post_id |-> post_id, inserted |-> inserted,
     again |-> (wlast.op = op /\ wlast.args = args), tick |-> ~wlast.tick]

GetOrCreatePost ==
    \E title \in Titles :
        LET got == get_or_create_post(title) IN
        /\ OnStaff
        /\ posts' = got.posts
        /\ seq_posts' = got.seq
        /\ wlast' = WCall("get_or_create_post", <<title>>,
                           got.post_id, got.inserted)
        /\ UNCHANGED <<workers, seq_workers, current_year, hired>>
        /\ UNCHANGED <<step_vars, flight_vars>>

AddWorker ==
    \E name \in WorkerNames, post \in Titles, year \in Years :
        LET got == get_or_create_post(post) IN
        /\ OnStaff
        /\ BagCardinality(workers) < MaxWorkers
        /\ posts' = got.posts
        /\ seq_posts' = got.seq
        /\ workers' = workers (+) SetToBag({[worker_id |-> seq_workers + 1,
                                             worker_name |-> name,
                                             post_id |-> got.post_id,
                                             worker_year |-> year]})
        /\ seq_workers' = seq_workers + 1
        /\ wlast' = WCall("add_worker", <<name, post, year>>,
                           got.post_id, got.inserted)
        /\ hired' = hired (+) SetToBag({<<name, post, year>>})
        /\ UNCHANGED <<current_year, step_vars, flight_vars>>

GetAllWorkers ==
    /\ OnStaff
    /\ wlast' = WCall("get_all_workers", <<>>, 0, FALSE)
    /\ UNCHANGED <<posts, workers, seq_posts, seq_workers, current_year,
                   hired, step_vars, flight_vars>>

SelectByPeriod ==
    \E period \in Periods :
        /\ OnStaff
        /\ wlast' = WCall("select_by_period", <<period>>, 0, FALSE)
        /\ UNCHANGED <<posts, workers, seq_posts, seq_workers, current_year,
                       hired, step_vars, flight_vars>>

\* The system clock passes into the next year.
NewYear ==
    /\ OnStaff
    /\ current_year + 1 \in ClockYears
    /\ current_year' = current_year + 1
    /\ UNCHANGED <<posts, workers, seq_posts, seq_workers, wlast, hired,
                   step_vars, flight_vars>>

\* StaffRepository(db_path) constructed again over the database file:
\* _create_db.
ConstructStaff ==
    /\ OnStaff
    /\ posts' = create_table_if_not_exists(TRUE, posts)
    /\ workers' = create_table_if_not_exists(TRUE, workers)
    /\ wlast' = WCall("construct", <<>>, 0, FALSE)
    /\ UNCHANGED <<seq_posts, seq_workers, current_year, hired>>
    /\ UNCHANGED <<step_vars, flight_vars>>

----------------------------------------------------------------------------
(* Worker Registry, statement by statement: processes that share the        *)
(* database file, each call on a connection of its own                      *)

\* A process outside any call; r is how its last call ended.
Idle ==
    [pc |-> "idle", op |-> "none", title |-> "", name |-> "", year |-> 0,
     post_id |-> 0, created |-> FALSE, r |-> "none"]

\* Mutant: posts.post_title declared without UNIQUE.
post_title_taken_not_unique(title) == FALSE

\* posts.post_title TEXT NOT NULL UNIQUE
post_title_taken(title) ==
    \E row \in BagToSet(posts) : row.post_title = title

\* workers.worker_name TEXT NOT NULL
worker_name_null(name) == name = None

\* The write lock (RESERVED) that the first INSERT of a transaction takes:
\* it is free, or held by another connection until that commits or is
\* closed; sqlite3 waits for it for the 5 seconds of its default timeout.
lock_free_for(p) == w_lock \in {"free", p}

\* The call ends with an exception before conn.close(): the connection
\* stays open until it is finalised, and keeps the lock if it has it.
Raise(p, exception, keeps_lock) ==
    /\ proc' = [proc EXCEPT ![p].pc = "idle", ![p].r = exception]
    /\ w_open' = Min(w_open + 1, MaxOpen)
    /\ w_lock' = IF keeps_lock THEN "leaked" ELSE w_lock

\* A process calls get_or_create_post(title) or add_worker(name, post, year)
\* (get_or_create_post has no name and no year: one choice of them is taken).
StaffBegin(p) ==
    \E op \in {"get_or_create_post", "add_worker"}, title \in Titles,
       name \in StepNames, year \in StepYears :
        /\ OnStaff /\ proc[p].pc = "idle"
        /\ BagCardinality(posts) < MaxRows
        /\ op = "add_worker" =>
             BagCardinality(workers)
               + Cardinality({q \in Procs : proc[q].pc # "idle"
                                              /\ proc[q].op = "add_worker"})
               < MaxWorkers
        /\ op = "get_or_create_post" => name = None
        /\ proc' = [proc EXCEPT ![p] =
                      [pc |-> "select", op |-> op, title |-> title,
                       name |-> IF op = "add_worker" THEN name ELSE "",
                       year |-> IF op = "add_worker" THEN year ELSE 0,
                       post_id |-> 0, created |-> FALSE, r |-> "none"]]
        /\ UNCHANGED <<posts, workers, seq_posts, seq_workers, current_year,
                       wlast, hired, w_lock, w_open, flight_vars>>

\* get_or_create_post: what follows it in the call of p.
AfterPost(p) ==
    IF proc[p].op = "add_worker" THEN "insert_worker" ELSE "idle"

\* cursor.execute(SELECT post_id ...); row = cursor.fetchone(); if a row is
\* found, post_id = row[0]; conn.close(); return post_id
SelectPost(p) ==
    /\ OnStaff /\ proc[p].pc = "select"
    /\ LET sel == select_post(proc[p].title) IN
       proc' = IF sel.row
               THEN [proc EXCEPT ![p].pc = AfterPost(p),
                                 ![p].post_id = sel.post_id,
                                 ![p].r = IF AfterPost(p) = "idle"
                                          THEN "ok" ELSE "none"]
               ELSE [proc EXCEPT ![p].pc = "insert_post"]
    /\ UNCHANGED <<posts, workers, seq_posts, seq_workers, current_year,
                   wlast, hired, w_lock, w_open, flight_vars>>

\* cursor.execute(INSERT INTO posts ...); post_id = cursor.lastrowid
InsertPost(p) ==
    /\ OnStaff /\ proc[p].pc = "insert_post"
    /\ IF ~lock_free_for(p)
       THEN Raise(p, "OperationalError", FALSE)
       ELSE IF post_title_taken(proc[p].title)
       THEN Raise(p, "IntegrityError", TRUE)
       ELSE /\ proc' = [proc EXCEPT ![p].pc = "commit_post",
                                     ![p].post_id = seq_posts + 1]
            /\ w_lock' = p
            /\ w_open' = w_open
    /\ UNCHANGED <<posts, workers, seq_posts, seq_workers, current_year,
                   wlast, hired, flight_vars>>

\* Mutant: get_or_create_post returns the new post_id without committing.
CommitPost_without_commit(p) ==
    /\ OnStaff /\ proc[p].pc = "commit_post"
    /\ w_lock' = "free"
    /\ proc' = [proc EXCEPT ![p].pc = AfterPost(p),
                            ![p].r = IF AfterPost(p) = "idle"
                                     THEN "ok" ELSE "none"]
    /\ UNCHANGED <<posts, seq_posts, workers, seq_workers, current_year,
                   wlast, hired, w_open, flight_vars>>

\* conn.commit(); conn.close(); return post_id
CommitPost(p) ==
    /\ OnStaff /\ proc[p].pc = "commit_post"
    /\ posts' = posts (+) SetToBag({[post_id |-> proc[p].post_id,
                                     post_title |-> proc[p].title]})
    /\ seq_posts' = proc[p].post_id
    /\ w_lock' = "free"
    /\ proc' = [proc EXCEPT ![p].pc = AfterPost(p),
                            ![p].created = TRUE,
                            ![p].r = IF AfterPost(p) = "idle"
                                     THEN "ok" ELSE "none"]
    /\ UNCHANGED <<workers, seq_workers, current_year, wlast, hired, w_open,
                   flight_vars>>

\* add_worker: conn = self._connect(); cursor.execute(INSERT INTO workers ...)
InsertWorker(p) ==
    /\ OnStaff /\ proc[p].pc = "insert_worker"
    /\ IF ~lock_free_for(p)
       THEN Raise(p, "OperationalError", FALSE)
       ELSE IF worker_name_null(proc[p].name)
       THEN Raise(p, "IntegrityError", TRUE)
       ELSE /\ proc' = [proc EXCEPT ![p].pc = "commit_worker"]
            /\ w_lock' = p
            /\ w_open' = w_open
    /\ UNCHANGED <<posts, workers, seq_posts, seq_workers, current_year,
                   wlast, hired, flight_vars>>

\* add_worker: conn.commit(); conn.close()
CommitWorker(p) ==
    /\ OnStaff /\ proc[p].pc = "commit_worker"
    /\ workers' = workers (+) SetToBag({[worker_id |-> seq_workers + 1,
                                         worker_name |-> proc[p].name,
                                         post_id |-> proc[p].post_id,
                                         worker_year |-> proc[p].year]})
    /\ seq_workers' = seq_workers + 1
    /\ hired' = hired (+)
                  SetToBag({<<proc[p].name, proc[p].title, proc[p].year>>})
    /\ w_lock' = "free"
    /\ proc' = [proc EXCEPT ![p].pc = "idle", ![p].r = "ok"]
    /\ UNCHANGED <<posts, seq_posts, current_year, wlast, w_open,
                   flight_vars>>

\* The garbage collector finalises the unclosed connections of the staff
\* repository: open transactions are rolled back, the lock is released.
CollectGarbageStaff ==
    /\ OnStaff /\ w_open > 0
    /\ w_open' = 0
    /\ w_lock' = IF w_lock = "leaked" THEN "free" ELSE w_lock
    /\ UNCHANGED <<posts, workers, seq_posts, seq_workers, current_year,
                   wlast, hired, proc, flight_vars>>

WorkerInit ==
    /\ posts = create_table_if_not_exists(FALSE, EmptyBag)
    /\ workers = create_table_if_not_exists(FALSE, EmptyBag)
    /\ seq_posts = 0 /\ seq_workers = 0
    /\ current_year \in ClockYears
    /\ wlast = [op |-> "none", args |-> <<>>, post_id |-> 0,
                inserted |-> FALSE, again |-> FALSE, tick |-> FALSE]
    /\ hired = EmptyBag
    /\ proc = [p \in Procs |-> Idle]
    /\ w_lock = "free" /\ w_open = 0

----------------------------------------------------------------------------
(* The display functions of workers.py, task1.py and task2.py.  A printed   *)
(* line is the kind of line it is and, for a table row, its cells.          *)

EmptyLine == [kind |-> "list is empty", cells |-> <<>>]
Border == [kind |-> "border", cells |-> <<>>]
HeaderLine == [kind |-> "header", cells |-> <<>>]
RowLine(cells) == [kind |-> "row", cells |-> cells]

DigitChar(d) ==
    CASE d = 0 -> "0" [] d = 1 -> "1" [] d = 2 -> "2" [] d = 3 -> "3"
      [] d = 4 -> "4" [] d = 5 -> "5" [] d = 6 -> "6" [] d = 7 -> "7"
      [] d = 8 -> "8" [] d = 9 -> "9"

\* A number in w digits, zero padded, as %Y, %m, %d, %H and %M print it.
Pad(n, w) == [i \in 1..w |-> DigitChar((n \div (10 ^ (w - i))) % 10)]

\* dt.strftime("%Y-%m-%d %H:%M")
Strftime(dt) ==
    Pad(dt.year, 4) \o <<"-">> \o Pad(dt.month, 2) \o <<"-">>
      \o Pad(dt.day, 2) \o <<" ">> \o Pad(dt.hour, 2) \o <<":">>
      \o Pad(dt.minute, 2)

\* What a display function prints for a list whose rows have the given cells.
Table(rows) == <<Border, HeaderLine, Border>> \o rows \o <<Border>>

\* Mutant: the branch of the empty list does not return.
display_workers_no_return(ws) ==
    (IF ws = <<>> THEN <<EmptyLine>> ELSE <<>>)
      \o Table([i \in DOMAIN ws |->
                  RowLine(<<i, ws[i].name, ws[i].post, ws[i].year>>)])

\* workers.py display_workers
display_workers(ws) ==
    IF ws = <<>> THEN <<EmptyLine>>
    ELSE Table([i \in DOMAIN ws |->
                  RowLine(<<i, ws[i].name, ws[i].post, ws[i].year>>)])

\* task1.py display_flights
t1_display_flights(flights) ==
    IF flights = <<>> THEN <<EmptyLine>>
    ELSE Table([i \in DOMAIN flights |->
                  RowLine(<<flights[i].number, flights[i].departure_airport,
                            flights[i].arrival_airport,
                            flights[i].departure_time,
                            flights[i].arrival_time>>)])

\* task1.py display_airports
t1_display_airports(airports) ==
    IF airports = <<>> THEN <<EmptyLine>>
    ELSE Table([i \in DOMAIN airports |->
                  RowLine(<<airports[i].code, airports[i].name,
                            airports[i].city>>)])

\* task2.py display_flights
t2_display_flights(flights) ==
    IF flights = <<>> THEN <<EmptyLine>>
    ELSE Table([i \in DOMAIN flights |->
                  RowLine(<<flights[i].number,
                            flights[i].departure_airport_code,
                            flights[i].arrival_airport_code,
                            Strftime(flights[i].departure_time),
                            Strftime(flights[i].arrival_time)>>)])

\* task2.py display_airports
t2_display_airports(airports) ==
    IF airports = <<>> THEN <<EmptyLine>>
    ELSE Table([i \in DOMAIN airports |->
                  RowLine(<<airports[i].code, airports[i].name,
                            airports[i].city>>)])

\* The lists the display functions are called with.
ListsOf(S) == UNION {[1..n -> S] : n \in 0..MaxLen}

WorkerObjects == [name : WorkerNames, post : Titles, year : Years]
AirportObjects == {[code |-> c, name |-> nc[1], city |-> nc[2]] :
                     c \in Codes, nc \in Names}
t1_FlightObjects ==
    {[number |-> n, departure_airport |-> f[1], arrival_airport |-> f[2],
      departure_time |-> f[3], arrival_time |-> f[4]] :
       n \in {"SU100"}, f \in FlightInputs}
t2_FlightObjects ==
    {[number |-> n, departure_airport_code |-> f[1],
      arrival_airport_code |-> f[2],
      departure_time |-> Parsed[f[3]].dt, arrival_time |-> Parsed[f[4]].dt] :
       n \in {"SU100"},
       f \in {g \in FlightInputs : Parsed[g[3]].ok /\ Parsed[g[4]].ok}}

Show(fn, list, lines) ==
    /\ repo = "none"
    /\ out' = [fn |-> fn, list |-> list, lines |-> lines]
    /\ UNCHANGED <<repo, t1_vars, t2_vars, last, worker_vars>>

DisplayWorkers ==
    \E ws \in ListsOf(WorkerObjects) :
        Show("display_workers", ws, display_workers(ws))

DisplayFlights1 ==
    \E flights \in ListsOf(t1_FlightObjects) :
        Show("task1.display_flights", flights, t1_display_flights(flights))

DisplayAirports1 ==
    \E airports \in ListsOf(AirportObjects) :
        Show("task1.display_airports", airports,
             t1_display_airports(airports))

DisplayFlights2 ==
    \E flights \in ListsOf(t2_FlightObjects) :
        Show("task2.display_flights", flights, t2_display_flights(flights))

DisplayAirports2 ==
    \E airports \in ListsOf(AirportObjects) :
        Show("task2.display_airports", airports,
             t2_display_airports(airports))

----------------------------------------------------------------------------
(* Specifications *)

\* The Flight Registry, the calls made on one of the two repositories.
Init ==
    /\ repo \in {"task1", "task2"}
    /\ FlightStoresInit
    /\ WorkerInit /\ current_year = 2024

Next ==
    \/ AddAirport
    \/ AddFlight
    \/ GetAllFlights
    \/ GetFlightsByDestination
    \/ GetAllAirports
    \/ Construct
    \/ UseRelationships
    \/ CollectGarbage

Spec == Init /\ [][Next]_vars

\* The Flight Registry, the same calls made on both repositories, each from
\* its empty database.
InitBoth ==
    /\ repo = "both"
    /\ FlightStoresInit
    /\ WorkerInit /\ current_year = 2024

SpecBoth == InitBoth /\ [][Next]_vars

\* The Worker Registry.
InitWorkers ==
    /\ repo = "staff"
    /\ FlightStoresInit
    /\ WorkerInit

NextWorkers ==
    \/ GetOrCreatePost
    \/ AddWorker
    \/ GetAllWorkers
    \/ SelectByPeriod
    \/ ConstructStaff
    \/ NewYear

SpecWorkers == InitWorkers /\ [][NextWorkers]_vars

\* The three repositories, a run making its calls on one of them.
InitStores ==
    /\ repo \in {"task1", "task2", "staff"}
    /\ FlightStoresInit
    /\ WorkerInit /\ current_year = 2024

NextStores == Next \/ NextWorkers

SpecStores == InitStores /\ [][NextStores]_vars

\* The display functions, called with lists of value objects.
InitDisplay ==
    /\ repo = "none"
    /\ FlightStoresInit
    /\ WorkerInit /\ current_year = 2024

NextDisplay ==
    \/ DisplayWorkers
    \/ DisplayFlights1
    \/ DisplayAirports1
    \/ DisplayFlights2
    \/ DisplayAirports2

SpecDisplay == InitDisplay /\ [][NextDisplay]_vars

\* The Worker Registry called by two processes, statement by statement.
InitSteps == InitWorkers /\ current_year = 2024

NextSteps ==
    \/ \E p \in Procs : StaffBegin(p)
    \/ \E p \in Procs : SelectPost(p)
    \/ \E p \in Procs : InsertPost(p)
    \/ \E p \in Procs : CommitPost(p)
    \/ \E p \in Procs : InsertWorker(p)
    \/ \E p \in Procs : CommitWorker(p)
    \/ CollectGarbageStaff

SpecSteps == InitSteps /\ [][NextSteps]_vars

----------------------------------------------------------------------------
(* Properties *)

\* A step is a call on the flight repositories / on the staff repository.
CallStep == last'.tick # last.tick
WCallStep == wlast'.tick # wlast.tick

\* Every element of the list is in it once.
EachOnce(list) == \A x \in BagToSet(list) : list[x] = 1

Raised(r) == r \notin {"ok", "none"}

\* A task1 Flight and a task2 Flight as the arguments that would add them.
Flight1Args(f) ==
    <<f.number, f.departure_airport, f.arrival_airport,
      f.departure_time, f.arrival_time>>
Flight2Key(f) ==
    <<f.number, f.departure_airport_code, f.arrival_airport_code>>

\* C1: in either repository get_flights_by_destination(code) returns, each
\* once, exactly the flights added whose arrival airport code is code (so
\* nothing for a code no added flight arrives at), and it does not raise.
C1_ByDestination ==
    /\ \A code \in QueryCodes :
         /\ On1 =>
              LET res == t1_get_flights_by_destination(code) IN
              /\ EachOnce(res)
              /\ {Flight1Args(f) : f \in BagToSet(res)}
                   = {a \in ok1.flights : a[3] = code}
         /\ On2 =>
              LET res == t2_get_flights_by_destination(code) IN
              /\ EachOnce(res)
              /\ {Flight2Key(f) : f \in BagToSet(res)}
                   = {<<a[1], a[2], a[3]>> : a \in {b \in ok2.flights : b[3] = code}}
              /\ BagCardinality(res)
                   = Cardinality({b \in ok2.flights : b[3] = code})
    /\ last.op = "get_flights_by_destination" =>
         ~Raised(last.r1) /\ ~Raised(last.r2)

\* C1 witness: with two flights stored, one of them arriving at LED,
\* get_flights_by_destination("LED") has returned that one, and
\* get_flights_by_destination("XXX") would return nothing.
C1_Witness ==
    /\ last.op = "get_flights_by_destination" /\ last.args = <<"LED">>
    /\ repo = "task1"
    /\ BagCardinality(t1_get_all_flights) = 2
    /\ BagCardinality(t1_get_flights_by_destination("LED")) = 1
    /\ t1_get_flights_by_destination("XXX") = EmptyBag

\* C2: an add_airport call with a code that is already stored raises, and
\* leaves the tables as they were: get_all_airports still returns one airport
\* with that code, the row stored before the call.
C2_DuplicateAirport ==
    [][(CallStep /\ last'.op = "add_airport") =>
         LET code == last'.args[1] IN
         /\ (On1 /\ \E a \in BagToSet(t1_airports) : a.code = code) =>
              /\ Raised(last'.r1)
              /\ t1_airports' = t1_airports /\ t1_flights' = t1_flights
              /\ BagCardinality(Where(t1_get_all_airports',
                                      {a \in BagToSet(t1_get_all_airports') : a.code = code})) = 1
         /\ (On2 /\ \E a \in BagToSet(t2_airports) : a.code = code) =>
              /\ Raised(last'.r2)
              /\ t2_airports' = t2_airports /\ t2_flights' = t2_flights
              /\ BagCardinality(Where(t2_get_all_airports',
                                      {a \in BagToSet(t2_get_all_airports') : a.code = code})) = 1
      ]_vars

\* C2 witness: add_airport("SVO", "Other name", "Other city") has raised
\* IntegrityError, and SVO is stored with the name of its first insertion.
C2_Witness ==
    /\ last.op = "add_airport"
    /\ last.args = <<"SVO", "Other name", "Other city">>
    /\ repo = "task2" /\ last.r2 = "IntegrityError"
    /\ BagToSet(Where(t2_get_all_airports, {a \in BagToSet(t2_get_all_airports) : a.code = "SVO"}))
         = {[code |-> "SVO", name |-> "Sheremetyevo", city |-> "Moscow"]}

\* C3: in task1, both airport codes of every stored flight are codes of
\* stored airports.
C3_NoDanglingFlight ==
    On1 => \A f \in BagToSet(t1_flights) :
             ~t1_dangling(f.departure_airport, f.arrival_airport)

\* The format YYYY-MM-DD HH:MM read as a template: sixteen characters, a
\* digit in each letter's place and the separators in theirs.
MatchesFormat(s) ==
    /\ Len(s) = 16
    /\ \A i \in {1, 2, 3, 4, 6, 7, 9, 10, 12, 13, 15, 16} : s[i] \in Digits
    /\ s[5] = "-" /\ s[8] = "-" /\ s[11] = " " /\ s[14] = ":"

\* The timestamp a string of that template names, field by field.
FixedFields(s) ==
    [year   |-> NumVal(SubSeq(s, 1, 4)),
     month  |-> NumVal(SubSeq(s, 6, 7)),
     day    |-> NumVal(SubSeq(s, 9, 10)),
     hour   |-> NumVal(SubSeq(s, 12, 13)),
     minute |-> NumVal(SubSeq(s, 15, 16))]

NoRowNumbered(flights, number) ==
    \A f \in BagToSet(flights) : f.number # number

\* C4 as stated: in task2, add_flight with a departure or arrival time string
\* that does not match the template YYYY-MM-DD HH:MM raises ValueError and
\* leaves table flights unchanged.
C4_TemplateMismatchRaises ==
    [][(CallStep /\ last'.op = "add_flight" /\ On2
          /\ (~MatchesFormat(last'.args[4]) \/ ~MatchesFormat(last'.args[5]))) =>
         /\ last'.r2 = "ValueError"
         /\ t2_flights' = t2_flights
      ]_vars

\* C4 amended: in task2, add_flight with a departure or arrival time string
\* that strptime does not accept for "%Y-%m-%d %H:%M" raises ValueError and
\* leaves table flights unchanged: if no row had that flight number before
\* the call, none has it afterwards.
C4_UnparsedTimeRaises ==
    [][(CallStep /\ last'.op = "add_flight" /\ On2
          /\ (~StrptimeOk(last'.args[4]) \/ ~StrptimeOk(last'.args[5]))) =>
         /\ last'.r2 = "ValueError"
         /\ t2_flights' = t2_flights
         /\ NoRowNumbered(t2_flights, last'.args[1])
              => NoRowNumbered(t2_flights', last'.args[1])
      ]_vars

\* C4 witness: add_flight with the arrival time "not-a-date" has raised
\* ValueError and no row has its flight number.
C4_Witness ==
    /\ last.op = "add_flight" /\ repo = "task2"
    /\ last.args[4] = TS_1000 /\ last.args[5] = TS_bad
    /\ last.r2 = "ValueError"
    /\ NoRowNumbered(t2_get_all_flights, last.args[1])

\* C5: in task1, add_flight with a departure or arrival time string that
\* does not parse in the format raises, and stores no row with that string.
C5_Task1UnparsedTimeRaises ==
    (On1 /\ last.op = "add_flight"
       /\ (~StrptimeOk(last.args[4]) \/ ~StrptimeOk(last.args[5]))) =>
      /\ Raised(last.r1)
      /\ \A f \in BagToSet(t1_flights) :
           StrptimeOk(f.departure_time) /\ StrptimeOk(f.arrival_time)

\* C6: every flight added with time strings of the template is in the list
\* get_all_flights returns, with its number and airport codes and with its
\* times: in task1 the strings themselves, in task2 timestamps with the
\* year, month, day, hour and minute the strings name.
C6_RoundTrip ==
    /\ On1 =>
         \A a \in ok1.flights :
           (MatchesFormat(a[4]) /\ MatchesFormat(a[5])) =>
             \E f \in BagToSet(t1_get_all_flights) : Flight1Args(f) = a
    /\ On2 =>
         \A a \in ok2.flights :
           (MatchesFormat(a[4]) /\ MatchesFormat(a[5])) =>
             \E f \in BagToSet(t2_get_all_flights) :
               /\ Flight2Key(f) = <<a[1], a[2], a[3]>>
               /\ f.departure_time = FixedFields(a[4])
               /\ f.arrival_time = FixedFields(a[5])

\* C6 witness: SU100 from SVO to LED, added in task2 with "2024-05-20 10:00"
\* and "2024-05-20 11:30", is in the list get_all_flights has returned, with
\* the timestamps 2024-5-20 10:00 and 2024-5-20 11:30.
C6_Witness ==
    /\ last.op = "get_all_flights" /\ repo = "task2"
    /\ <<"SU100", "SVO", "LED", TS_1000, TS_1130>> \in ok2.flights
    /\ [number |-> "SU100",
        departure_airport_code |-> "SVO", arrival_airport_code |-> "LED",
        departure_time |-> [year |-> 2024, month |-> 5, day |-> 20,
                            hour |-> 10, minute |-> 0],
        arrival_time |-> [year |-> 2024, month |-> 5, day |-> 20,
                          hour |-> 11, minute |-> 30]]
         \in BagToSet(t2_get_all_flights)

\* C7: a get_or_create_post(title) call inserts a post exactly when no post
\* has that title, and returns the id of the post with that title; called
\* again with the same title it inserts nothing and returns the same id.
C7_GetOrCreateTwice ==
    [][(WCallStep /\ wlast'.op = "get_or_create_post") =>
         LET title == wlast'.args[1] IN
         /\ wlast'.inserted <=>
              (\A p \in BagToSet(posts) : p.post_title # title)
         /\ \E p \in BagToSet(posts') :
              p.post_title = title /\ p.post_id = wlast'.post_id
         /\ ~wlast'.inserted => posts' = posts
         /\ wlast'.again =>
              /\ wlast'.post_id = wlast.post_id
              /\ ~wlast'.inserted
              /\ posts' = posts
      ]_vars

\* C7 witness: get_or_create_post has been called twice in a row with the
\* title of the second post created, and has returned 2 without inserting.
C7_Witness ==
    /\ wlast.op = "get_or_create_post" /\ wlast.again
    /\ wlast.post_id = 2 /\ ~wlast.inserted
    /\ BagCardinality(posts) = 2

HiredWorker(h) == [name |-> h[1], post |-> h[2], year |-> h[3]]

\* C8: select_by_period(p) returns exactly the workers added whose year
\* satisfies (current_year - year) >= p, each as often as it was added; in
\* 2024, with p = 10, a worker of 2010 is in the list and one of 2020 is not.
C8_SelectByPeriod ==
    /\ \A p \in Periods :
         LET res == select_by_period(p) IN
         \A v \in BagToSet(res) \cup {HiredWorker(h) : h \in BagToSet(hired)} :
           CopiesIn(v, res) =
             IF (current_year - v.year) >= p
             THEN CopiesIn(<<v.name, v.post, v.year>>, hired)
             ELSE 0
    /\ current_year = 2024 =>
         \A h \in BagToSet(hired) :
           /\ h[3] = 2010 => BagIn(HiredWorker(h), select_by_period(10))
           /\ h[3] = 2020 => ~BagIn(HiredWorker(h), select_by_period(10))

\* C8 witness: in 2024, with a worker of 2010 and a worker of 2020 stored,
\* select_by_period(10) has returned the one of 2010 alone.
C8_Witness ==
    /\ current_year = 2024
    /\ wlast.op = "select_by_period" /\ wlast.args = <<10>>
    /\ \E h \in BagToSet(hired) : h[3] = 2010
    /\ \E h \in BagToSet(hired) : h[3] = 2020
    /\ BagCardinality(select_by_period(10)) = 1

\* C9: add_flight with well-formed times and a flight number that is already
\* stored raises the uniqueness violation (IntegrityError) and leaves table
\* flights unchanged, with one flight of that number.
C9_DuplicateNumberViolatesUniqueness ==
    [][(CallStep /\ last'.op = "add_flight"
          /\ StrptimeOk(last'.args[4]) /\ StrptimeOk(last'.args[5])) =>
         LET number == last'.args[1] IN
         /\ (On1 /\ ~NoRowNumbered(t1_flights, number)) =>
              /\ last'.r1 = "IntegrityError"
              /\ t1_flights' = t1_flights
              /\ BagCardinality(Where(t1_get_all_flights',
                                      {f \in BagToSet(t1_get_all_flights') : f.number = number})) = 1
         /\ (On2 /\ ~NoRowNumbered(t2_flights, number)) =>
              /\ last'.r2 = "IntegrityError"
              /\ t2_flights' = t2_flights
              /\ BagCardinality(Where(t2_get_all_flights',
                                      {f \in BagToSet(t2_get_all_flights') : f.number = number})) = 1
      ]_vars

ReadOps == {"get_all_airports", "get_all_flights", "get_flights_by_destination"}

\* C10: before any call get_all_airports and get_all_flights return nothing;
\* in every state get_all_airports returns, each once, exactly the airports
\* of the add_airport calls that completed, with their code, name and city;
\* no read operation raises.
C10_AirportsAsAdded ==
    /\ last = NoCall =>
         /\ On1 => t1_get_all_airports = EmptyBag /\ t1_get_all_flights = EmptyBag
         /\ On2 => t2_get_all_airports = EmptyBag /\ t2_get_all_flights = EmptyBag
    /\ On1 =>
         /\ EachOnce(t1_get_all_airports)
         /\ {<<a.code, a.name, a.city>> : a \in BagToSet(t1_get_all_airports)}
              = ok1.airports
    /\ On2 =>
         /\ EachOnce(t2_get_all_airports)
         /\ {<<a.code, a.name, a.city>> : a \in BagToSet(t2_get_all_airports)}
              = ok2.airports
    /\ last.op \in ReadOps => ~Raised(last.r1) /\ ~Raised(last.r2)

\* C10 witness: get_all_airports has returned the two airports added, after
\* an add_airport call that raised and whose connection is still open.
C10_Witness ==
    /\ last.op = "get_all_airports" /\ repo = "task1"
    /\ t1_locked
    /\ BagCardinality(t1_get_all_airports) = 2
    /\ t1_get_all_flights = EmptyBag

\* C11: no connection or session that a completed call opened is open: every
\* call, whether it returned or raised, has released the handle it opened.
C11_NoHandleLeftOpen ==
    /\ On1 => t1_open = 0
    /\ On2 => t2_open = 0

\* C12: an add_flight call made on both repositories with an airport code
\* that no stored airport has (the times well formed, the number not stored,
\* no lock held) is rejected by exactly one of task1 and task2, and the other
\* stores the flight.
C12_ExactlyOneRejectsDangling ==
    [][(CallStep /\ last'.op = "add_flight" /\ repo = "both"
          /\ t1_dangling(last'.args[2], last'.args[3])
          /\ t2_dangling(last'.args[2], last'.args[3])
          /\ MatchesFormat(last'.args[4]) /\ StrptimeOk(last'.args[4])
          /\ MatchesFormat(last'.args[5]) /\ StrptimeOk(last'.args[5])
          /\ NoRowNumbered(t1_flights, last'.args[1])
          /\ NoRowNumbered(t2_flights, last'.args[1])
          /\ ~t1_locked) =>
         /\ Raised(last'.r1) # Raised(last'.r2)
         /\ Raised(last'.r1) <=> NoRowNumbered(t1_flights', last'.args[1])
         /\ Raised(last'.r2) <=> NoRowNumbered(t2_flights', last'.args[1])
      ]_vars

\* C13: constructing a repository again over its database raises no error
\* and leaves every stored airport, flight, post and worker as it was.
C13_SchemaCreationIdempotent ==
    [][/\ (CallStep /\ last'.op = "construct") =>
            /\ ~Raised(last'.r1) /\ ~Raised(last'.r2)
            /\ t1_airports' = t1_airports /\ t1_flights' = t1_flights
            /\ t2_airports' = t2_airports /\ t2_flights' = t2_flights
       /\ (WCallStep /\ wlast'.op = "construct") =>
            /\ posts' = posts /\ workers' = workers
            /\ get_all_workers' = get_all_workers
      ]_vars

\* C13 witness: the staff repository has been constructed again over a
\* database with two posts and two workers, which are still stored.
C13_Witness ==
    /\ wlast.op = "construct"
    /\ BagCardinality(posts) = 2 /\ BagCardinality(workers) = 2
    /\ BagCardinality(get_all_workers) = 2

\* The posts with a title: those stored and those inserted by a call that
\* has not committed yet.
RowsTitled(title) ==
    Cardinality({row \in BagToSet(posts) : row.post_title = title})
PendingTitled(title) ==
    Cardinality({p \in Procs : proc[p].pc = "commit_post"
                                 /\ proc[p].title = title})

\* C14: in every state, however the get_or_create_post calls of the two
\* processes interleave, table posts has no two rows with the same title,
\* and of the inserts of a title at most one is committed or about to be.
C14_TitlesUnique ==
    /\ EachOnce(posts)
    /\ \A title \in Titles : RowsTitled(title) + PendingTitled(title) <= 1

\* C14 witness: both processes called get_or_create_post("engineer") and
\* found no row; the insert of A is committed, that of B raised
\* IntegrityError, and one post has the title.
C14_Witness ==
    /\ proc["A"].op = "get_or_create_post" /\ proc["A"].title = "engineer"
    /\ proc["A"].pc = "idle" /\ proc["A"].r = "ok" /\ proc["A"].created
    /\ proc["B"].op = "get_or_create_post" /\ proc["B"].title = "engineer"
    /\ proc["B"].pc = "idle" /\ proc["B"].r = "IntegrityError"
    /\ RowsTitled("engineer") = 1

\* The post ids of the worker rows whose post has the title.
PostIdsTitled(title) ==
    {w.post_id : w \in {x \in BagToSet(workers) :
        \E row \in BagToSet(posts) :
            row.post_id = x.post_id /\ row.post_title = title}}

\* C15: get_all_workers returns one Worker per completed add_worker call,
\* with the name, post title and year of the call (a Worker is in the list
\* as often as calls were made with its values), and the workers added with
\* one post title reference one and the same post.
C15_OneWorkerPerCall ==
    /\ BagCardinality(get_all_workers) = BagCardinality(hired)
    /\ \A v \in BagToSet(get_all_workers)
                  \cup {HiredWorker(h) : h \in BagToSet(hired)} :
         CopiesIn(v, get_all_workers)
           = CopiesIn(<<v.name, v.post, v.year>>, hired)
    /\ \A title \in Titles :
         /\ Cardinality(PostIdsTitled(title)) <= 1
         /\ (\E h \in BagToSet(hired) : h[2] = title) =>
              /\ RowsTitled(title) = 1
              /\ Cardinality(PostIdsTitled(title)) = 1

\* C15 witness: two add_worker calls with the title "engineer" have been
\* made, a post "manager" exists as well, and get_all_workers has returned
\* two Workers that reference the one post "engineer".
C15_Witness ==
    /\ wlast.op = "get_all_workers"
    /\ BagCardinality(hired) = 2
    /\ \A h \in BagToSet(hired) : h[2] = "engineer"
    /\ BagCardinality(posts) = 2
    /\ BagCardinality(get_all_workers) = 2
    /\ Cardinality(PostIdsTitled("engineer")) = 1

\* C16: in task2, the caller who reads the relationships of a Flight after
\* get_all_flights has returned it gets them: the read does not raise.
C16_DetachedRelationships ==
    (On2 /\ last.op = "relationships") => last.r2 = "ok"

\* C17: a display function called with an empty list prints one line, the
\* "list is empty" line, and so no border and no header; called with a list
\* that is not empty it prints no "list is empty" line.
C17_EmptyListLine ==
    out.fn # "none" =>
      /\ out.list = <<>> => out.lines = <<EmptyLine>>
      /\ out.list # <<>> =>
           \A i \in DOMAIN out.lines : out.lines[i].kind # "list is empty"

\* C17 witness: display_workers has been called with the empty list and has
\* printed the one line.
C17_Witness ==
    /\ out.fn = "display_workers" /\ out.list = <<>>
    /\ Len(out.lines) = 1 /\ out.lines[1].kind = "list is empty"

\* C18: in every state of the Worker Registry, calls failing or racing as
\* they may, the post_id of every worker row is the id of exactly one stored
\* post, so the join of get_all_workers and of select_by_period has one row
\* for every worker row (that the WHERE clause keeps).
C18_WorkersReferencePosts ==
    /\ \A w \in BagToSet(workers) :
         /\ Cardinality({row \in BagToSet(posts) :
                           row.post_id = w.post_id}) = 1
         /\ \A row \in BagToSet(posts) :
              row.post_id = w.post_id => posts[row] = 1
    /\ BagCardinality(get_all_workers) = BagCardinality(workers)
    /\ \A period \in Periods :
         BagCardinality(select_by_period(period))
           = BagCardinality(Where(workers,
               {w \in BagToSet(workers) :
                  (current_year - w.worker_year) >= period}))

\* C18 witness: two workers are stored, both referencing the same one of the
\* two posts, after a call has failed with IntegrityError.
C18_Witness ==
    /\ BagCardinality(workers) = 2 /\ BagCardinality(posts) = 2
    /\ \E p \in Procs : proc[p].pc = "idle" /\ proc[p].r = "IntegrityError"
    /\ Cardinality({w.post_id : w \in BagToSet(workers)}) = 1
    /\ BagCardinality(get_all_workers) = 2

\* C19: when an add_worker call has ended by raising, no post that the call
\* itself created is in the store: the store is as it was before the call.
C19_AddWorkerAtomic ==
    \A p \in Procs :
      (proc[p].op = "add_worker" /\ proc[p].pc = "idle"
         /\ Raised(proc[p].r) /\ proc[p].created) =>
        \A row \in BagToSet(posts) : row.post_id # proc[p].post_id

\* The flights of the two repositories with their times to the minute: the
\* time strings of task1 parsed, the timestamps of task2 as they are.
Flights1ToTheMinute ==
    {<<f.number, f.departure_airport, f.arrival_airport,
       Strptime(f.departure_time), Strptime(f.arrival_time)>> :
       f \in BagToSet(t1_get_all_flights)}
Flights2ToTheMinute ==
    {<<f.number, f.departure_airport_code, f.arrival_airport_code,
       f.departure_time, f.arrival_time>> :
       f \in BagToSet(t2_get_all_flights)}

\* Every add_flight call made so far had well-formed time strings: those of
\* the stored flights and of the last call are of the template and parse.
WellFormedTime(s) == MatchesFormat(s) /\ StrptimeOk(s)
WellFormedSoFar ==
    /\ \A a \in ok1.flights \cup ok2.flights :
         WellFormedTime(a[4]) /\ WellFormedTime(a[5])
    /\ last.op = "add_flight" =>
         WellFormedTime(last.args[4]) /\ WellFormedTime(last.args[5])

\* C20: after calls made on both repositories side by side, all with
\* well-formed time strings, task1 and task2 have accepted and rejected the
\* same calls and hold the same airports and the same flights, times to the
\* minute.
C20_SideBySide ==
    (repo = "both" /\ WellFormedSoFar) =>
      /\ last.op \in {"add_airport", "add_flight"} =>
           (Raised(last.r1) <=> Raised(last.r2))
      /\ BagToSet(t1_get_all_airports) = BagToSet(t2_get_all_airports)
      /\ Flights1ToTheMinute = Flights2ToTheMinute

====
